---------------------------- MODULE Spec2Model ----------------------------
(***************************************************************************)
(* A model of pysoxy.py, a small SOCKS5 proxy server.                      *)
(*                                                                         *)
(* The main thread runs the accept loop of main(); every accepted socket   *)
(* is served by its own thread running connection(): subnegotiation(),     *)
(* then request() = request_client(), connect_to_dst(), the reply, the     *)
(* relay proxy_loop() and the two close() calls.  The only state shared    *)
(* between threads is the flag EXIT and the number of live threads.        *)
(*                                                                         *)
(* Bytes are numbers 0..255 and a buffer is a sequence of bytes.  A        *)
(* dotted-quad string such as "10.0.0.1" is written as the tuple of its    *)
(* four decimal fields.  A close() counted here is a call of close() in    *)
(* the source: a socket that is only dropped (and finalised whenever the   *)
(* interpreter collects it) is not counted as closed.                      *)
(***************************************************************************)
EXTENDS Integers, Sequences, FiniteSets, TLC

(***************************************************************************)
(* Bounds of the model.                                                    *)
(***************************************************************************)
\* the ceiling MAX_THREADS (200 in pysoxy.py line 28), scaled down
MAX_THREADS == 3
\* sockets the accept loop may accept in SupSpec
MaxSupConns == 2
\* bytes one relay may forward in Spec
MaxFwd == 2
\* longest domain name of the requests of CodecSpec
MaxName == 2

(***************************************************************************)
(* Configuration, pysoxy.py lines 28-38.                                   *)
(***************************************************************************)
\* line 38: no device is named, the interface is left to the routing
OUTGOING_INTERFACE == ""
\* line 37: the setting the comment offers, used by IfaceSpec
ConfiguredInterface == "eth0"

(***************************************************************************)
(* Protocol constants, pysoxy.py lines 45-61.                              *)
(***************************************************************************)
VER == 5
M_NOAUTH == 0
M_NOTAVAILABLE == 255
CMD_CONNECT == 1
CMD_BIND == 2
ATYP_IPV4 == 1
ATYP_DOMAINNAME == 3
ATYP_IPV6 == 4

(***************************************************************************)
(* Python values and slices.                                               *)
(***************************************************************************)
Min(a, b) == IF a < b THEN a ELSE b

\* Python's s[a:b] for 0 <= a <= b, 0-based, cut at the end of s
Slice(s, a, b) == [i \in 1..(Min(b, Len(s)) - Min(a, Len(s))) |-> s[a + i]]

\* a slip: the two bytes read in little-endian order, as '<H'
UnpackHLittleEndian(b) ==
    IF Len(b) = 2 THEN [raised |-> FALSE, v |-> b[2] * 256 + b[1]]
                  ELSE [raised |-> TRUE, v |-> 0]

\* struct.unpack('>H', b)[0]: raises struct.error unless b holds exactly 2 bytes
UnpackH(b) ==
    IF Len(b) = 2 THEN [raised |-> FALSE, v |-> b[1] * 256 + b[2]]
                  ELSE [raised |-> TRUE, v |-> 0]

\* struct.pack('>H', n)
PackH(n) == <<n \div 256, n % 256>>

\* socket.inet_ntoa(b): raises OSError unless b holds exactly 4 bytes
InetNtoa(b) ==
    IF Len(b) = 4 THEN [raised |-> FALSE, v |-> <<b[1], b[2], b[3], b[4]>>]
                  ELSE [raised |-> TRUE, v |-> <<>>]

\* socket.inet_aton(s) of a dotted quad
InetAton(s) == <<s[1], s[2], s[3], s[4]>>

(***************************************************************************)
(* What recv() on the client socket gives: a buffer, or an exception.      *)
(***************************************************************************)
Data(b) == [state |-> "data", data |-> b]
RecvError == [state |-> "error", data |-> <<>>]
NotRead == [state |-> "none", data |-> <<>>]

(***************************************************************************)
(* subnegotiation_client, from the result of its recv() on: the method it  *)
(* returns, or raised when identification_packet[1] is out of range.       *)
(***************************************************************************)
\* a slip: only the first offered method is looked at
SubnegotiationClientFirstOnly(pkt) ==
    LET d == pkt.data
        methods == Slice(d, 2, Len(d))
    IN  IF pkt.state = "error" \/ Slice(d, 0, 1) # <<VER>>
            THEN [raised |-> FALSE, method |-> M_NOTAVAILABLE]
        ELSE IF Len(d) < 2 THEN [raised |-> TRUE, method |-> M_NOTAVAILABLE]
        ELSE IF Len(methods) # d[2] \/ Len(methods) = 0
            THEN [raised |-> FALSE, method |-> M_NOTAVAILABLE]
        ELSE IF methods[1] = M_NOAUTH
            THEN [raised |-> FALSE, method |-> M_NOAUTH]
        ELSE [raised |-> FALSE, method |-> M_NOTAVAILABLE]

SubnegotiationClient(pkt) ==
    LET d == pkt.data
        methods == Slice(d, 2, Len(d))
    IN  IF pkt.state = "error"
            THEN [raised |-> FALSE, method |-> M_NOTAVAILABLE]
        ELSE IF Slice(d, 0, 1) # <<VER>>
            THEN [raised |-> FALSE, method |-> M_NOTAVAILABLE]
        ELSE IF Len(d) < 2
            THEN [raised |-> TRUE, method |-> M_NOTAVAILABLE]
        ELSE IF Len(methods) # d[2]
            THEN [raised |-> FALSE, method |-> M_NOTAVAILABLE]
        ELSE IF \E i \in 1..Len(methods) : methods[i] = M_NOAUTH
            THEN [raised |-> FALSE, method |-> M_NOAUTH]
        ELSE [raised |-> FALSE, method |-> M_NOTAVAILABLE]

(***************************************************************************)
(* request_client after its recv(): the checks of VER, CMD, RSV and the    *)
(* decoding of DST.ADDR and DST.PORT.  The result is False, a pair         *)
(* (dst_addr, dst_port), or an exception that request_client lets through. *)
(***************************************************************************)
NoDst == [kind |-> "False", atyp |-> 0, addr |-> <<>>, port |-> 0]
DstRaised == [kind |-> "Raised", atyp |-> 0, addr |-> <<>>, port |-> 0]
NotParsed == [kind |-> "None", atyp |-> 0, addr |-> <<>>, port |-> 0]
Dst(t, a, p) == [kind |-> "Dst", atyp |-> t, addr |-> a, port |-> p]

\* a slip: CMD is not tested
ParseRequestAnyCmd(s) ==
    IF Slice(s, 0, 1) # <<VER>> \/ Slice(s, 2, 3) # <<0>>
        THEN NoDst
    ELSE IF Slice(s, 3, 4) = <<ATYP_IPV4>>
        THEN LET a == InetNtoa(Slice(s, 4, 8))
                 p == UnpackH(Slice(s, 8, 10))
             IN  IF a.raised \/ p.raised THEN DstRaised
                 ELSE Dst(ATYP_IPV4, a.v, p.v)
    ELSE NoDst

ParseRequest(s) ==
    IF \/ Slice(s, 0, 1) # <<VER>>
       \/ Slice(s, 1, 2) # <<CMD_CONNECT>>
       \/ Slice(s, 2, 3) # <<0>>
        THEN NoDst
    ELSE IF Slice(s, 3, 4) = <<ATYP_IPV4>>
        THEN LET a == InetNtoa(Slice(s, 4, 8))
                 p == UnpackH(Slice(s, 8, 10))
             IN  IF a.raised \/ p.raised THEN DstRaised
                 ELSE Dst(ATYP_IPV4, a.v, p.v)
    ELSE IF Slice(s, 3, 4) = <<ATYP_DOMAINNAME>>
        THEN IF Len(s) < 5 THEN DstRaised
             ELSE LET sz == s[5]
                      p == UnpackH(Slice(s, 5 + sz, 5 + sz + 2))
                  IN  IF p.raised THEN DstRaised
                      ELSE Dst(ATYP_DOMAINNAME, Slice(s, 5, 5 + sz), p.v)
    ELSE NoDst

(***************************************************************************)
(* The reply of request(), lines 207-217.                                  *)
(***************************************************************************)
\* socket_dst: 0, or a connected socket with its getsockname()
Zero == [kind |-> "zero", addr |-> <<0, 0, 0, 0>>, port |-> 0]
Sock(a, p) == [kind |-> "sock", addr |-> a, port |-> p]

\* a slip: rep is 0x00 whatever happened
RepAlwaysSucceeded(dst, socket_dst) == 0

\* rep, as lines 207-214 leave it
Rep(dst, socket_dst) ==
    IF dst.kind # "Dst" \/ socket_dst = Zero THEN 1 ELSE 0

\* a slip: the port packed in host (little-endian) order
BndLittleEndian(dst, socket_dst) ==
    IF dst.kind # "Dst" \/ socket_dst = Zero
        THEN <<0, 0, 0, 0, 0, 0>>
        ELSE InetAton(socket_dst.addr)
                 \o <<socket_dst.port % 256, socket_dst.port \div 256>>

\* bnd, as lines 208-216 leave it
Bnd(dst, socket_dst) ==
    IF dst.kind # "Dst" \/ socket_dst = Zero
        THEN <<0, 0, 0, 0, 0, 0>>
        ELSE InetAton(socket_dst.addr) \o PackH(socket_dst.port)

\* reply, line 217
Reply(dst, socket_dst) ==
    <<VER, Rep(dst, socket_dst), 0, ATYP_IPV4>> \o Bnd(dst, socket_dst)

(***************************************************************************)
(* What the clients and the network may do.                                *)
(***************************************************************************)
\* handshake buffers a client may send (Spec)
HandshakeInputs ==
    { <<>>, <<5>>, <<4, 1, 0>>, <<5, 0>>, <<5, 1, 2>>, <<5, 2, 1, 2>>,
      <<5, 2, 0>>, <<5, 1, 0, 2>>, <<5, 1, 0>>, <<5, 2, 2, 0>> }

\* handshake buffers a client may send (SupSpec)
SupHandshakeInputs == { <<5, 1, 2>>, <<5, 1, 0>> }

\* request buffers a client may send (Spec)
RequestInputs ==
    { <<>>,
      <<4, 1, 0, 1, 10, 0, 0, 1, 0, 80>>,
      <<5, 2, 0, 1, 10, 0, 0, 1, 0, 80>>,
      <<5, 1, 1, 1, 10, 0, 0, 1, 0, 80>>,
      <<5, 1, 0, 4, 0, 0, 0, 0, 0, 0, 0, 0, 0, 0, 0, 0, 0, 0, 0, 1, 0, 80>>,
      <<5, 1, 0>>,
      <<5, 1, 0, 1, 10, 0, 0, 1, 31, 144>>,
      <<5, 1, 0, 1, 10, 0, 0, 1, 0>>,
      <<5, 1, 0, 1, 10, 0>>,
      <<5, 1, 0, 1, 10, 0, 0, 1, 0, 80, 9>>,
      <<5, 1, 0, 3>>,
      <<5, 1, 0, 3, 2, 97, 98, 1, 187>>,
      <<5, 1, 0, 3, 2, 97, 98, 1>>,
      <<5, 1, 0, 3, 2, 97, 98>>,
      <<5, 1, 0, 3, 2, 97>>,
      <<5, 1, 0, 3, 2, 97, 98, 1, 187, 9>> }

\* request buffers a client may send (SupSpec)
SupRequestInputs == { <<5, 2, 0, 1, 10, 0, 0, 1, 0, 80>>,
                      <<5, 1, 0, 1, 10, 0, 0, 1, 0, 80>> }

\* the destinations of CodecSpec: (address type, address, port), with
\* dotted quads, names of 1..MaxName bytes and 16-bit ports
CodecTuples ==
    ( {ATYP_IPV4} \X { <<10, 0, 0, 1>>, <<255, 255, 255, 255>> }
                  \X { 0, 80, 443, 65535 } )
    \cup
    ( {ATYP_DOMAINNAME} \X (UNION { [1..n -> {97, 46}] : n \in 1..MaxName })
                        \X { 0, 80, 443, 65535 } )

\* the CONNECT request a client sends for destination t, in the layout of
\* lines 135-139: VER CMD RSV ATYP DST.ADDR DST.PORT
EncodeRequest(t) ==
    <<VER, CMD_CONNECT, 0, t[1]>>
        \o (IF t[1] = ATYP_IPV4 THEN InetAton(t[2])
                                ELSE <<Len(t[2])>> \o t[2])
        \o PackH(t[3])

\* request buffers a client may send (CodecSpec)
CodecInputs == { EncodeRequest(t) : t \in CodecTuples }

\* getsockname() of an outbound socket after connect() (Spec)
SockNames == { Sock(<<192, 168, 1, 5>>, 50000), Sock(<<10, 0, 0, 2>>, 258) }

\* getsockname() of an outbound socket after connect() (SupSpec)
SupSockNames == { Sock(<<10, 0, 0, 2>>, 258) }

\* a chunk recv() returns in the relay; the empty one means the peer closed
RelayChunks == { <<>>, <<7>>, <<8, 9>> }

(***************************************************************************)
(* The state.                                                              *)
(***************************************************************************)
VARIABLES
    EXIT,        \* EXIT.exit, the shutdown flag
    pcMain,      \* where main() is: "while", "accept", "returned"
    listening,   \* new_socket is open
    conn         \* conn[c]: the thread of the c-th accepted socket

vars == <<EXIT, pcMain, listening, conn>>

Ids == 1..MaxSupConns

\* A thread before its socket is accepted.
\*   pc            "idle", "negotiate", "request", "connect", "reply",
\*                 "proxy", "proxy_for", "proxy_send" (inside a send() to
\*                 the client), "close", "done" (connection() returned)
\*                 or "raised" (an exception ended the thread)
\*   hs, rq        what the two recv() calls on the client socket gave
\*   entered       request() was called
\*   dst           what request_client returned
\*   socket_dst    the variable socket_dst of request()
\*   created       outbound sockets create_socket() made for this thread
\*   sent          the frames handed to wrapper.sendall(), in order
\*   sendRaised    the last of them raised socket.error
\*   wrapperCloses calls of wrapper.close()
\*   dstCloses     calls of close() on an outbound socket
\*   reader        the sockets select() reported that have not been read
\*                 (kept until request() returns)
\*   toDst, toSrc  bytes proxy_loop handed to a socket_dst.send /
\*                 socket_src.send that returned
\*   eof           a recv() of proxy_loop returned no bytes
\*   stop          why proxy_loop ended
\*   lateStart     EXIT was set when the thread was started
\*   unbound       setsockopt(SO_BINDTODEVICE) raised PermissionError on the
\*                 outbound socket of the thread
\*   rdSrc, rdDst  the bytes proxy_loop read from the client / destination
\*   wrSrc, wrDst  the bytes send() took for the client / destination
\*   pending       the chunk of a send() to the client that has not returned
Idle ==
    [ pc |-> "idle", hs |-> NotRead, rq |-> NotRead, entered |-> FALSE,
      dst |-> NotParsed, socket_dst |-> Zero, created |-> 0,
      sent |-> <<>>, sendRaised |-> FALSE,
      wrapperCloses |-> 0, dstCloses |-> 0,
      reader |-> <<>>, toDst |-> 0, toSrc |-> 0, eof |-> FALSE,
      stop |-> "none", lateStart |-> FALSE, unbound |-> FALSE,
      rdSrc |-> <<>>, rdDst |-> <<>>, wrSrc |-> <<>>, wrDst |-> <<>>,
      pending |-> <<>> ]

Init ==
    /\ EXIT = FALSE
    /\ pcMain = "while"
    /\ listening = TRUE
    /\ conn = [c \in Ids |-> Idle]

\* the threads of connection() that are alive
Running == { c \in Ids : conn[c].pc \notin {"idle", "done", "raised"} }

\* threading.activeCount(): the main thread, the daemon thread that main()
\* starts for run_wpad_server (lines 431-433), and the connection threads
ActiveCount == 2 + Cardinality(Running)

(***************************************************************************)
(* main(), lines 439-458.                                                  *)
(***************************************************************************)
\* a slip: the ceiling tested one too high
OverCeilingOffByOne == ActiveCount > MAX_THREADS + 1

\* line 442
OverCeiling == ActiveCount > MAX_THREADS

\* one turn of the while loop up to accept(): lines 441-444, and line 458
\* when EXIT is set.  Over the ceiling the turn is sleep(3) and continue,
\* which leaves main() at the test of the loop.
MainWhile ==
    /\ pcMain = "while"
    /\ IF EXIT
          THEN pcMain' = "returned" /\ listening' = FALSE
          ELSE /\ pcMain' = IF OverCeiling THEN "while" ELSE "accept"
               /\ UNCHANGED listening
    /\ UNCHANGED <<EXIT, conn>>

\* a slip: the loop waits in accept() again without the test of line 441
MainAcceptAgain(maxConns) ==
    /\ pcMain = "accept"
    /\ \E c \in 1..maxConns :
          /\ conn[c].pc = "idle"
          /\ \A b \in 1..(c - 1) : conn[b].pc # "idle"
          /\ conn' = [conn EXCEPT ![c].pc = "negotiate",
                                   ![c].lateStart = EXIT]
    /\ UNCHANGED <<EXIT, pcMain, listening>>

\* accept() returns a socket and the thread is started: lines 446-457
MainAccept(maxConns) ==
    /\ pcMain = "accept"
    /\ \E c \in 1..maxConns :
          /\ conn[c].pc = "idle"
          /\ \A b \in 1..(c - 1) : conn[b].pc # "idle"
          /\ conn' = [conn EXCEPT ![c].pc = "negotiate",
                                   ![c].lateStart = EXIT]
    /\ pcMain' = "while"
    /\ UNCHANGED <<EXIT, listening>>

\* accept() raises socket.timeout or socket.error: lines 448-452
\* (accept() takes no argument and does not raise the TypeError of line 453)
MainAcceptTimeout ==
    /\ pcMain = "accept"
    /\ pcMain' = "while"
    /\ UNCHANGED <<EXIT, listening, conn>>

\* a slip: the handler flips the flag
ExitHandlerToggles ==
    /\ EXIT' = ~EXIT
    /\ UNCHANGED <<pcMain, listening, conn>>

\* SIGINT or SIGTERM: lines 330-333
ExitHandler ==
    /\ EXIT' = TRUE
    /\ UNCHANGED <<pcMain, listening, conn>>

(***************************************************************************)
(* connection(), lines 289-292: subnegotiation(), then request().          *)
(***************************************************************************)
\* subnegotiation_client and subnegotiation, lines 234-286, and the return
\* of connection() when subnegotiation gives False
Subnegotiation(c, inputs) ==
    /\ conn[c].pc = "negotiate"
    /\ \E pkt \in {Data(b) : b \in inputs} \cup {RecvError} :
          LET m == SubnegotiationClient(pkt) IN
          IF m.raised
             THEN conn' = [conn EXCEPT ![c].hs = pkt, ![c].pc = "raised"]
          ELSE IF m.method # M_NOAUTH
             THEN conn' = [conn EXCEPT ![c].hs = pkt, ![c].pc = "done"]
          ELSE \E ok \in BOOLEAN :
                  conn' = [conn EXCEPT
                      ![c].hs = pkt,
                      ![c].sent = Append(@, <<VER, m.method>>),
                      ![c].sendRaised = ~ok,
                      ![c].entered = ok,
                      ![c].pc = IF ok THEN "request" ELSE "done"]
    /\ UNCHANGED <<EXIT, pcMain, listening>>

\* a slip: a failed read of the request stops the server
RequestClientFatal(c, inputs) ==
    /\ conn[c].pc = "request"
    /\ conn' = [conn EXCEPT ![c].rq = RecvError, ![c].dst = DstRaised,
                            ![c].pc = "raised"]
    /\ EXIT' = TRUE
    /\ UNCHANGED <<pcMain, listening>>

\* request_client, lines 140-169, and lines 179-180, 207-209 of request()
RequestClient(c, inputs) ==
    /\ conn[c].pc = "request"
    /\ \/ \* recv() raises ConnectionResetError: lines 142-146
          conn' = [conn EXCEPT
              ![c].rq = [state |-> "reset", data |-> <<>>],
              ![c].wrapperCloses = @ + 1,
              ![c].dst = NoDst,
              ![c].pc = "reply"]
       \/ \* recv() raises another OSError, which line 142 does not catch
          conn' = [conn EXCEPT
              ![c].rq = RecvError,
              ![c].dst = DstRaised,
              ![c].pc = "raised"]
       \/ \E b \in inputs :
             LET dst == ParseRequest(b) IN
             conn' = [conn EXCEPT
                 ![c].rq = Data(b),
                 ![c].dst = dst,
                 ![c].pc = IF dst.kind = "Raised" THEN "raised"
                           ELSE IF dst.kind = "Dst" THEN "connect"
                           ELSE "reply"]
    /\ UNCHANGED <<EXIT, pcMain, listening>>

\* lines 114-123: what setsockopt(SO_BINDTODEVICE) does.  It is skipped
\* when OUTGOING_INTERFACE is empty; else the socket is bound, or
\* PermissionError is caught, or another OSError (no such device) is not.
SetSockOpt(iface) ==
    IF iface = "" THEN {"skipped"} ELSE {"bound", "denied", "oserror"}

\* connect_to_dst, lines 111-130, called at line 210
ConnectToDst(c, names, iface) ==
    /\ conn[c].pc = "connect"
    /\ \/ \E opt \in SetSockOpt(iface) :
             IF opt = "oserror"
                THEN /\ conn' = [conn EXCEPT ![c].created = @ + 1,
                                             ![c].pc = "raised"]
                     /\ UNCHANGED EXIT
                ELSE \* line 123 sets EXIT, and line 125 is reached all the same
                     /\ EXIT' = (EXIT \/ opt = "denied")
                     /\ \/ \E s \in names :
                              conn' = [conn EXCEPT
                                  ![c].created = @ + 1,
                                  ![c].unbound = (opt = "denied"),
                                  ![c].socket_dst = s,
                                  ![c].pc = "reply"]
                        \/ \* connect() raises socket.error: 0 is returned,
                           \* sock is dropped
                           conn' = [conn EXCEPT
                               ![c].created = @ + 1,
                               ![c].unbound = (opt = "denied"),
                               ![c].socket_dst = Zero,
                               ![c].pc = "reply"]
       \/ \* create_socket() fails and calls sys.exit(0), lines 300-302:
          \* SystemExit ends the thread
          /\ conn' = [conn EXCEPT ![c].pc = "raised"]
          /\ UNCHANGED EXIT
    /\ UNCHANGED <<pcMain, listening>>

\* lines 211-226: the reply is built and sent.  sendall() on a socket that
\* request_client has closed always raises.
SendReply(c) ==
    /\ conn[c].pc = "reply"
    /\ LET frame == Reply(conn[c].dst, conn[c].socket_dst)
           rep == Rep(conn[c].dst, conn[c].socket_dst)
       IN  \/ /\ conn[c].wrapperCloses = 0
              /\ conn' = [conn EXCEPT
                     ![c].sent = Append(@, frame),
                     ![c].pc = IF rep = 0 THEN "proxy" ELSE "close"]
           \/ \* socket.error: lines 220-223
              conn' = [conn EXCEPT
                  ![c].sent = Append(@, frame),
                  ![c].sendRaised = TRUE,
                  ![c].wrapperCloses = @ + 1,
                  ![c].pc = "done"]
    /\ UNCHANGED <<EXIT, pcMain, listening>>

(***************************************************************************)
(* proxy_loop, lines 87-108.                                               *)
(***************************************************************************)
\* one test of the while loop and its select(): lines 89-96
ProxySelect(c) ==
    /\ conn[c].pc = "proxy"
    /\ IF EXIT
          THEN conn' = [conn EXCEPT ![c].stop = "exit", ![c].pc = "close"]
          ELSE \/ \* select.error: lines 92-94
                  conn' = [conn EXCEPT ![c].stop = "select", ![c].pc = "close"]
               \/ \* nothing readable within 1 s: continue
                  UNCHANGED conn
               \/ \E r \in {<<"src">>, <<"dst">>, <<"src", "dst">>} :
                     conn' = [conn EXCEPT ![c].reader = r,
                                          ![c].pc = "proxy_for"]
    /\ UNCHANGED <<EXIT, pcMain, listening>>

\* a slip: the empty read is not tested
NotDataNever(data) == FALSE

\* line 100: not data
NotData(data) == Len(data) = 0

\* what send(data) may return.  socket_dst has a timeout (line 299), so
\* its send() is one non-blocking send that may take a part of data;
\* wrapper is blocking (line 447) and its send() waits until all is taken.
SendTakes(from, data) ==
    {Len(data)} \cup (IF from = "src" THEN 1..Len(data) ELSE {})

\* the thread after a send() of lines 102-105 took n bytes of data, which
\* was read from `from`; the return value of send() is not looked at
AfterSend(r, from, data, n) ==
    [r EXCEPT !.eof = @ \/ Len(data) = 0,
              !.toSrc = IF from = "dst" THEN @ + Len(data) ELSE @,
              !.toDst = IF from = "dst" THEN @ ELSE @ + Len(data),
              !.wrSrc = IF from = "dst" THEN @ \o Slice(data, 0, n) ELSE @,
              !.wrDst = IF from = "dst" THEN @ ELSE @ \o Slice(data, 0, n),
              !.pending = <<>>,
              !.reader = Tail(@),
              !.pc = IF Tail(r.reader) = <<>> THEN "proxy" ELSE "proxy_for"]

\* the thread after recv() of line 99 gave data
AfterRecv(r, from, data) ==
    [r EXCEPT !.rdSrc = IF from = "src" THEN @ \o data ELSE @,
              !.rdDst = IF from = "dst" THEN @ \o data ELSE @]

\* one turn of the for loop: lines 98-108
ProxyRecv(c, maxFwd) ==
    /\ conn[c].pc = "proxy_for"
    /\ \/ \* recv() raises socket.error
          conn' = [conn EXCEPT ![c].stop = "error", ![c].reader = Tail(@),
                               ![c].pc = "close"]
       \/ \E data \in RelayChunks :
             /\ Len(data) > 0
                   => conn[c].toDst + conn[c].toSrc + Len(data) <= maxFwd
             /\ IF NotData(data)
                   THEN conn' = [conn EXCEPT ![c].eof = TRUE,
                                             ![c].stop = "eof",
                                             ![c].reader = Tail(@),
                                             ![c].pc = "close"]
                   ELSE LET from == Head(conn[c].reader)
                            r == AfterRecv(conn[c], from, data)
                        IN  \/ \* send() raises socket.error
                               conn' = [conn EXCEPT
                                   ![c] = [r EXCEPT !.stop = "error",
                                                    !.reader = Tail(@),
                                                    !.pc = "close"]]
                            \/ \E n \in SendTakes(from, data) :
                                  conn' = [conn EXCEPT
                                      ![c] = AfterSend(r, from, data, n)]
                            \/ \* the client does not read and its window
                               \* is full: send() does not return
                               /\ from = "dst"
                               /\ conn' = [conn EXCEPT
                                      ![c] = [r EXCEPT !.pending = data,
                                                       !.pc = "proxy_send"]]
    /\ UNCHANGED <<EXIT, pcMain, listening>>

\* line 103: a send() to the client that waited returns, when the client
\* has read or the connection has failed
ProxySendReturns(c) ==
    /\ conn[c].pc = "proxy_send"
    /\ \/ conn' = [conn EXCEPT
              ![c] = AfterSend(conn[c], "dst", conn[c].pending,
                               Len(conn[c].pending))]
       \/ conn' = [conn EXCEPT ![c].stop = "error", ![c].pending = <<>>,
                               ![c].reader = Tail(@), ![c].pc = "close"]
    /\ UNCHANGED <<EXIT, pcMain, listening>>

\* lines 227-231: sleep(1), then the two close() calls
CloseSockets(c) ==
    /\ conn[c].pc = "close"
    /\ conn' = [conn EXCEPT
           ![c].wrapperCloses = @ + 1,
           ![c].dstCloses = IF conn[c].socket_dst # Zero THEN @ + 1 ELSE @,
           ![c].reader = <<>>,
           ![c].pc = "done"]
    /\ UNCHANGED <<EXIT, pcMain, listening>>

(***************************************************************************)
(* The specifications.  Spec follows the first accepted connection with    *)
(* every client input.  SupSpec follows the accept loop with several       *)
(* threads, whose clients send few inputs and whose relays carry no data.  *)
(* IfaceSpec is the server with an outbound interface configured,          *)
(* CodecSpec the server whose client sends encoded destinations, LiveSpec  *)
(* the server with the progress its timeouts give.                         *)
(***************************************************************************)
Next ==
    \/ MainWhile
    \/ MainAccept(1)
    \/ MainAcceptTimeout
    \/ ExitHandler
    \/ \E c \in Ids : Subnegotiation(c, HandshakeInputs)
    \/ \E c \in Ids : RequestClient(c, RequestInputs)
    \/ \E c \in Ids : ConnectToDst(c, SockNames, OUTGOING_INTERFACE)
    \/ \E c \in Ids : SendReply(c)
    \/ \E c \in Ids : ProxySelect(c)
    \/ \E c \in Ids : ProxyRecv(c, MaxFwd)
    \/ \E c \in Ids : ProxySendReturns(c)
    \/ \E c \in Ids : CloseSockets(c)

Spec == Init /\ [][Next]_vars

SupNext ==
    \/ MainWhile
    \/ MainAccept(MaxSupConns)
    \/ MainAcceptTimeout
    \/ ExitHandler
    \/ \E c \in Ids : Subnegotiation(c, SupHandshakeInputs)
    \/ \E c \in Ids : RequestClient(c, SupRequestInputs)
    \/ \E c \in Ids : ConnectToDst(c, SupSockNames, OUTGOING_INTERFACE)
    \/ \E c \in Ids : SendReply(c)
    \/ \E c \in Ids : ProxySelect(c)
    \/ \E c \in Ids : ProxyRecv(c, 0)
    \/ \E c \in Ids : CloseSockets(c)

SupSpec == Init /\ [][SupNext]_vars

\* IfaceSpec is SupSpec with OUTGOING_INTERFACE set to a device name, as
\* line 37 offers: lines 115-123 of connect_to_dst are run.
IfaceNext ==
    \/ MainWhile
    \/ MainAccept(MaxSupConns)
    \/ MainAcceptTimeout
    \/ ExitHandler
    \/ \E c \in Ids : Subnegotiation(c, SupHandshakeInputs)
    \/ \E c \in Ids : RequestClient(c, SupRequestInputs)
    \/ \E c \in Ids : ConnectToDst(c, SupSockNames, ConfiguredInterface)
    \/ \E c \in Ids : SendReply(c)
    \/ \E c \in Ids : ProxySelect(c)
    \/ \E c \in Ids : ProxyRecv(c, 0)
    \/ \E c \in Ids : CloseSockets(c)

IfaceSpec == Init /\ [][IfaceNext]_vars

\* CodecSpec follows the first accepted connection, whose client sends the
\* encoded request of any destination of CodecTuples.
CodecNext ==
    \/ MainWhile
    \/ MainAccept(1)
    \/ MainAcceptTimeout
    \/ ExitHandler
    \/ \E c \in Ids : Subnegotiation(c, SupHandshakeInputs)
    \/ \E c \in Ids : RequestClient(c, CodecInputs)
    \/ \E c \in Ids : ConnectToDst(c, SupSockNames, OUTGOING_INTERFACE)
    \/ \E c \in Ids : SendReply(c)
    \/ \E c \in Ids : ProxySelect(c)
    \/ \E c \in Ids : ProxyRecv(c, 0)
    \/ \E c \in Ids : CloseSockets(c)

CodecSpec == Init /\ [][CodecNext]_vars

\* LiveSpec is SupSpec with relays that carry data, and with the progress
\* the code is sure of.  main() tests the flag again after sleep(3) or after
\* accept(), which returns within TIMEOUT_SOCKET (new_socket has the timeout
\* of line 299).  In a thread, connect() and every send() to socket_dst are
\* bounded by that timeout, select() by its 1 s, recv() in proxy_loop is
\* called on a socket select() reported readable, the reply of request() is
\* 10 bytes for an empty send buffer, and lines 227-231 wait for nothing.
\* Nothing bounds the two recv() calls of the handshake and of the request,
\* nor a send() in the relay to a client that does not read: wrapper is
\* blocking (line 447).  Signals come when they come.
LiveNext ==
    \/ MainWhile
    \/ MainAccept(MaxSupConns)
    \/ MainAcceptTimeout
    \/ ExitHandler
    \/ \E c \in Ids : Subnegotiation(c, SupHandshakeInputs)
    \/ \E c \in Ids : RequestClient(c, SupRequestInputs)
    \/ \E c \in Ids : ConnectToDst(c, SupSockNames, OUTGOING_INTERFACE)
    \/ \E c \in Ids : SendReply(c)
    \/ \E c \in Ids : ProxySelect(c)
    \/ \E c \in Ids : ProxyRecv(c, MaxFwd)
    \/ \E c \in Ids : ProxySendReturns(c)
    \/ \E c \in Ids : CloseSockets(c)

LiveSpec ==
    /\ Init /\ [][LiveNext]_vars
    /\ WF_vars(MainWhile)
    /\ WF_vars(MainAccept(MaxSupConns) \/ MainAcceptTimeout)
    /\ \A c \in Ids :
          /\ WF_vars(ConnectToDst(c, SupSockNames, OUTGOING_INTERFACE))
          /\ WF_vars(SendReply(c))
          /\ WF_vars(ProxySelect(c))
          /\ WF_vars(ProxyRecv(c, MaxFwd))
          /\ WF_vars(CloseSockets(c))

(***************************************************************************)
(* Vocabulary of the properties.                                           *)
(***************************************************************************)
\* the thread of connection c has ended
Finished(c) == conn[c].pc \in {"done", "raised"}

\* VER is 5 and NMETHODS counts the method bytes that follow
WellFormedHandshake(d) == Len(d) >= 2 /\ d[1] = 5 /\ d[2] = Len(d) - 2

\* 0x00 is among the method bytes
OffersNoAuth(d) == \E i \in 3..Len(d) : d[i] = 0

\* the frames of sent that are method selection messages (2 bytes)
MethodReplies(c) == { i \in 1..Len(conn[c].sent) : Len(conn[c].sent[i]) = 2 }

\* the frames of sent that are SOCKS5 replies (10 bytes)
RequestReplies(c) == { i \in 1..Len(conn[c].sent) : Len(conn[c].sent[i]) = 10 }

\* bytes the relay has forwarded
Forwarded(c) == conn[c].toDst + conn[c].toSrc

\* the sendall() of subnegotiation raised
NegotiationSendRaised(c) == conn[c].sendRaised /\ Len(conn[c].sent) = 1

(***************************************************************************)
(* C1.  A handshake that does not offer method 0x00 (an empty method list, *)
(* or only other codes) is answered with (0x05, 0xFF), the client socket   *)
(* is closed, and request() is never called.                               *)
(* The code returns from connection() with nothing sent and no close().    *)
(***************************************************************************)
C1_NoAcceptableMethodsReply ==
    \A c \in Ids :
        ( /\ conn[c].hs.state = "data"
          /\ WellFormedHandshake(conn[c].hs.data)
          /\ ~OffersNoAuth(conn[c].hs.data)
          /\ Finished(c) )
        => /\ conn[c].sent = << <<5, 255>> >>
           /\ conn[c].wrapperCloses >= 1
           /\ ~conn[c].entered

(***************************************************************************)
(* C2.  The reply status tells the failures apart: REP is 0x07 when        *)
(* request_client returned False, 0x01 when the outbound connect failed;   *)
(* every failure reply carries the all-zero bound address and port; REP is *)
(* 0x00 only when the connect succeeded.                                   *)
(* The code sends 0x01 for both failures.                                  *)
(***************************************************************************)
C2_ReplyStatusByFailure ==
    \A c \in Ids : \A i \in RequestReplies(c) :
        LET reply == conn[c].sent[i] IN
        ~conn[c].sendRaised =>
        /\ conn[c].dst.kind = "False" => reply[2] = 7
        /\ (conn[c].dst.kind = "Dst" /\ conn[c].socket_dst = Zero)
               => reply[2] = 1
        /\ reply[2] # 0 => Slice(reply, 4, 10) = <<0, 0, 0, 0, 0, 0>>
        /\ reply[2] = 0 => conn[c].socket_dst # Zero

(***************************************************************************)
(* C3.  When the thread of a connection has ended, on every exit path,     *)
(* the client socket has been closed exactly once and the destination      *)
(* socket, if one was opened, exactly once.                                *)
(* The code closes nothing when negotiation fails or an exception ends     *)
(* the thread, closes the client socket twice after a reset, and leaves    *)
(* the destination socket open when the reply cannot be sent.              *)
(***************************************************************************)
C3_SocketsClosedExactlyOnce ==
    \A c \in Ids :
        Finished(c)
        => /\ conn[c].wrapperCloses = 1
           /\ conn[c].socket_dst # Zero => conn[c].dstCloses = 1
           /\ conn[c].socket_dst = Zero => conn[c].dstCloses = 0

(***************************************************************************)
(* C4.  A connection for which request() was called gets exactly one       *)
(* SOCKS5 reply on its client socket, whatever request buffer the client   *)
(* sent, and the reply precedes every byte the relay forwards.             *)
(* A truncated request raises in request_client and no reply is sent.      *)
(***************************************************************************)
C4_ExactlyOneReply ==
    \A c \in Ids :
        /\ (conn[c].entered /\ Finished(c))
               => Cardinality(RequestReplies(c)) = 1
        /\ Cardinality(RequestReplies(c)) <= 1
        /\ Forwarded(c) > 0
               => (Cardinality(RequestReplies(c)) = 1 /\ ~conn[c].sendRaised)

(***************************************************************************)
(* C5 as stated.  For every well-formed handshake that offers 0x00,        *)
(* negotiation succeeds (request() is entered) and exactly one reply       *)
(* (0x05, 0x00) is written to the client socket during negotiation.        *)
(***************************************************************************)
C5_ValidNoAuthAlwaysSucceeds ==
    \A c \in Ids :
        ( /\ conn[c].hs.state = "data"
          /\ WellFormedHandshake(conn[c].hs.data)
          /\ OffersNoAuth(conn[c].hs.data) )
        => /\ conn[c].entered
           /\ MethodReplies(c) = {1}
           /\ conn[c].sent[1] = <<5, 0>>

(***************************************************************************)
(* C5 as amended.  For every well-formed handshake that offers 0x00,       *)
(* exactly one reply (0x05, 0x00) is handed to the client socket during    *)
(* negotiation, and negotiation succeeds unless that write raises a        *)
(* socket error: then subnegotiation gives False, the thread ends and      *)
(* request() is not entered.                                               *)
(***************************************************************************)
C5_ValidNoAuthNegotiates ==
    \A c \in Ids :
        ( /\ conn[c].hs.state = "data"
          /\ WellFormedHandshake(conn[c].hs.data)
          /\ OffersNoAuth(conn[c].hs.data) )
        => /\ MethodReplies(c) = {1}
           /\ conn[c].sent[1] = <<5, 0>>
           /\ conn[c].entered <=> ~NegotiationSendRaised(c)
           /\ ~conn[c].entered
                  => (conn[c].pc = "done" /\ conn[c].rq = NotRead)

\* a handshake with 0x00 as its second method has been negotiated
C5_Witness ==
    \E c \in Ids :
        /\ conn[c].hs = Data(<<5, 2, 2, 0>>)
        /\ conn[c].entered
        /\ conn[c].pc = "request"

(***************************************************************************)
(* C6.  For a domain-name CONNECT request with declared name length L the  *)
(* name is bytes [5, 5+L) and the port the next 2 bytes; a frame whose     *)
(* length is not 5+L+2 is rejected as malformed: request_client gives      *)
(* False (no exception escapes, no partial pair) and no outbound           *)
(* connection is attempted.                                                *)
(* A frame that is too short raises in request_client; one that is too     *)
(* long is accepted.                                                       *)
(***************************************************************************)
C6_DomainLengthExact ==
    \A c \in Ids :
        LET d == conn[c].rq.data IN
        ( /\ conn[c].rq.state = "data"
          /\ Len(d) >= 5
          /\ Slice(d, 0, 4) = <<5, 1, 0, 3>> )
        => IF Len(d) = 5 + d[5] + 2
              THEN conn[c].dst =
                       Dst(3, [i \in 1..d[5] |-> d[5 + i]],
                           d[5 + d[5] + 1] * 256 + d[5 + d[5] + 2])
              ELSE conn[c].dst = NoDst /\ conn[c].created = 0

(***************************************************************************)
(* C7.  For a well-formed CONNECT request whose outbound connect fails,    *)
(* a failure reply with the all-zero bound address is sent, the client     *)
(* socket is closed, and the socket connect_to_dst created is closed: no   *)
(* outbound socket of the connection stays open when the thread has ended. *)
(* connect_to_dst returns 0 without closing the socket it created.         *)
(***************************************************************************)
C7_ConnectFailureClosesOutbound ==
    \A c \in Ids :
        ( /\ Finished(c)
          /\ conn[c].dst.kind = "Dst"
          /\ conn[c].created >= 1
          /\ conn[c].socket_dst = Zero )
        => /\ \E i \in RequestReplies(c) :
                 /\ conn[c].sent[i][2] # 0
                 /\ Slice(conn[c].sent[i], 4, 10) = <<0, 0, 0, 0, 0, 0>>
           /\ conn[c].wrapperCloses >= 1
           /\ conn[c].dstCloses = conn[c].created

(***************************************************************************)
(* C8.  For a well-formed IPv4 CONNECT request to a reachable destination  *)
(* the thread opens exactly one outbound socket, sends a reply with        *)
(* REP = 0x00 whose BND.ADDR and BND.PORT are the local address and port   *)
(* of that socket, and only then enters the relay loop, which runs until   *)
(* one side closes, a socket error occurs or the shutdown flag is set.     *)
(***************************************************************************)
\* the request buffer is a well-formed IPv4 CONNECT request
WellFormedIPv4Connect(d) == Len(d) = 10 /\ Slice(d, 0, 4) = <<5, 1, 0, 1>>

C8_SuccessReplyThenRelay ==
    \A c \in Ids :
        ( /\ conn[c].rq.state = "data"
          /\ WellFormedIPv4Connect(conn[c].rq.data)
          /\ conn[c].socket_dst # Zero )
        => LET sock == conn[c].socket_dst
               inRelay == conn[c].pc \in {"proxy", "proxy_for", "proxy_send"}
               relayed == inRelay \/ conn[c].stop # "none"
           IN  /\ conn[c].created = 1
               \* the reply, once request() is past line 219
               /\ conn[c].pc # "reply"
                     => /\ RequestReplies(c) = {2}
                        /\ conn[c].sent[2] =
                              <<5, 0, 0, 1,
                                sock.addr[1], sock.addr[2],
                                sock.addr[3], sock.addr[4],
                                sock.port \div 256, sock.port % 256>>
               \* the relay starts after the reply has been sent
               /\ (relayed \/ Forwarded(c) > 0)
                     => (RequestReplies(c) = {2} /\ ~conn[c].sendRaised)
               /\ (conn[c].pc \in {"close", "done"} /\ ~conn[c].sendRaised)
                     => relayed
               \* the relay runs until one of the three ends it
               /\ inRelay => (conn[c].stop = "none" /\ ~conn[c].eof)
               /\ (relayed /\ ~inRelay)
                     => conn[c].stop \in {"eof", "error", "select", "exit"}
               /\ conn[c].stop = "exit" => EXIT

\* an IPv4 CONNECT was answered and relayed until the peer closed
C8_Witness ==
    \E c \in Ids :
        /\ conn[c].rq = Data(<<5, 1, 0, 1, 10, 0, 0, 1, 31, 144>>)
        /\ conn[c].socket_dst = Sock(<<10, 0, 0, 2>>, 258)
        /\ conn[c].toSrc > 0
        /\ conn[c].stop = "eof"
        /\ conn[c].pc = "done"

(***************************************************************************)
(* C9.  Once a recv() of the relay returns no bytes, no further byte is    *)
(* forwarded in either direction (the other socket of the same select()    *)
(* round is not read), the loop ends, and request() then closes each of    *)
(* the two sockets exactly once.                                           *)
(***************************************************************************)
C9_NoForwardAfterZeroRead ==
    /\ [][\A c \in Ids :
             conn[c].eof => /\ conn'[c].toDst = conn[c].toDst
                            /\ conn'[c].toSrc = conn[c].toSrc]_vars
    /\ [](\A c \in Ids :
             conn[c].eof => /\ conn[c].pc \in {"close", "done"}
                            /\ conn[c].stop = "eof")
    /\ [](\A c \in Ids :
             (conn[c].eof /\ conn[c].pc = "close")
                 => (conn[c].wrapperCloses = 0 /\ conn[c].dstCloses = 0))
    /\ [](\A c \in Ids :
             (conn[c].eof /\ conn[c].pc = "done")
                 => (conn[c].wrapperCloses = 1 /\ conn[c].dstCloses = 1))

\* a relay that had forwarded bytes read no bytes from the client while
\* the destination was readable in the same round, and has ended
C9_Witness ==
    \E c \in Ids :
        /\ conn[c].eof
        /\ conn[c].reader = <<"dst">>
        /\ conn[c].toDst > 0
        /\ conn[c].pc = "close"

(***************************************************************************)
(* C10.  Under every interleaving of the accept loop with the threads, the *)
(* number of live connection threads never exceeds MAX_THREADS: at the     *)
(* maximum the accept loop accepts no socket until the number has dropped  *)
(* below it, and while it pauses the listening socket stays open.          *)
(* The count the code compares with MAX_THREADS is activeCount(), which    *)
(* includes the main thread and the wpad thread: the accept loop waits in  *)
(* accept() only with activeCount() at or below MAX_THREADS.               *)
(***************************************************************************)
C10_CeilingRespected ==
    /\ Cardinality(Running) <= MAX_THREADS
    /\ pcMain = "accept" => /\ ActiveCount <= MAX_THREADS
                            /\ Cardinality(Running) < MAX_THREADS
    /\ pcMain \in {"while", "accept"} => listening

\* the accept loop is held at the ceiling, the listening socket open, after
\* it has started threads
C10_Witness ==
    /\ pcMain = "while"
    /\ ~EXIT
    /\ ActiveCount > MAX_THREADS
    /\ listening

(***************************************************************************)
(* C11.  A thread calls connect_to_dst, and has an outbound socket created *)
(* or connected, only if its negotiation succeeded and its request buffer  *)
(* was parsed as a CONNECT request: VER 0x05, CMD 0x01, RSV 0x00 and ATYP  *)
(* IPv4 or domain name, for which request_client returned a pair.          *)
(***************************************************************************)
\* the first four bytes are those of a CONNECT request to IPv4 or a name
ConnectHeader(d) ==
    /\ Slice(d, 0, 3) = <<5, 1, 0>>
    /\ Slice(d, 3, 4) \in { <<1>>, <<3>> }

C11_OutboundOnlyAfterValidConnect ==
    \A c \in Ids :
        ( \/ conn[c].pc = "connect"
          \/ conn[c].created > 0
          \/ conn[c].socket_dst # Zero )
        => /\ conn[c].entered
           /\ SubnegotiationClient(conn[c].hs).method = M_NOAUTH
           /\ conn[c].rq.state = "data"
           /\ ConnectHeader(conn[c].rq.data)
           /\ conn[c].dst.kind = "Dst"

\* an outbound socket was connected for a domain-name request
C11_Witness ==
    \E c \in Ids :
        /\ conn[c].rq = Data(<<5, 1, 0, 3, 2, 97, 98, 1, 187>>)
        /\ conn[c].created = 1
        /\ conn[c].socket_dst # Zero
        /\ conn[c].dst = Dst(3, <<97, 98>>, 443)

(***************************************************************************)
(* C12.  The shutdown flag EXIT is monotonic: over every sequence of       *)
(* signals, connection events and connect attempts (those of a configured  *)
(* outbound interface included), once it is True it is never False again.  *)
(***************************************************************************)
C12_ExitMonotonic == [][EXIT => EXIT']_vars

\* the flag was set by connect_to_dst, and the accept loop and that thread
\* have run to their ends since
C12_Witness ==
    /\ EXIT
    /\ pcMain = "returned"
    /\ \E c \in Ids : conn[c].unbound /\ conn[c].pc = "done"

(***************************************************************************)
(* C13.  No suspension point of a thread blocks for ever: the handshake    *)
(* read, the request read, the outbound connect and the readiness wait of  *)
(* the relay are each bounded by a timeout, so that a thread whose client  *)
(* connects and then sends nothing (or does not read) leaves the step and  *)
(* ends.                                                                   *)
(* The two reads are recv() on a blocking socket with no timeout: the      *)
(* thread of a silent client stays in the handshake read.                  *)
(***************************************************************************)
C13_NoStepBlocksForever ==
    \A c \in Ids :
        /\ (conn[c].pc = "negotiate") ~> (conn[c].pc # "negotiate")
        /\ (conn[c].pc = "request") ~> (conn[c].pc # "request")
        /\ (conn[c].pc = "connect") ~> (conn[c].pc # "connect")
        /\ (conn[c].pc = "proxy") ~> (conn[c].pc # "proxy")
        /\ (conn[c].pc = "negotiate") ~> Finished(c)

(***************************************************************************)
(* C14.  Every error of one connection (malformed handshake or request,    *)
(* failed read, write or connect, reset) stays in the thread of that       *)
(* connection: no step of a thread ends the accept loop, closes the        *)
(* listening socket, sets the shutdown flag, or changes anything of        *)
(* another connection.  The accept loop ends only on the flag.             *)
(***************************************************************************)
\* the step is one of the thread of connection c, after main() started it
ThreadStep(c) == conn[c].pc # "idle" /\ conn'[c] # conn[c]

C14_ErrorsContained ==
    /\ [][\A c \in Ids :
             ThreadStep(c) => /\ EXIT' = EXIT
                              /\ listening' = listening
                              /\ pcMain' = pcMain
                              /\ \A d \in Ids \ {c} : conn'[d] = conn[d]]_vars
    /\ [](pcMain = "returned" => EXIT)
    /\ [](~listening => pcMain = "returned")

\* a connection was reset during its request read and its thread has ended
\* while another thread relays, and the accept loop goes on
C14_Witness ==
    \E c, d \in Ids :
        /\ conn[c].rq.state = "reset"
        /\ conn[c].pc = "done"
        /\ conn[d].pc = "proxy"
        /\ ~EXIT
        /\ listening
        /\ pcMain = "while"

(***************************************************************************)
(* C15.  Round trip: for every destination (address type IPv4 or domain    *)
(* name, address, port) of the bounded sets, the CONNECT request frame     *)
(* that encodes it is decoded by request_client to the same address and    *)
(* the same port.                                                          *)
(***************************************************************************)
C15_RequestRoundTrip ==
    \A c \in Ids : \A t \in CodecTuples :
        conn[c].rq = Data(EncodeRequest(t))
            => /\ conn[c].dst.kind = "Dst"
               /\ conn[c].dst.addr = t[2]
               /\ conn[c].dst.port = t[3]

\* the frame of the name "a." and port 443 has been decoded
C15_Witness ==
    \E c \in Ids :
        /\ conn[c].rq = Data(<<5, 1, 0, 3, 2, 97, 46, 1, 187>>)
        /\ conn[c].dst = Dst(3, <<97, 46>>, 443)
        /\ conn[c].pc = "connect"

(***************************************************************************)
(* C16.  With an outbound interface configured, a binding that cannot be   *)
(* applied (PermissionError) is fatal for the process and is not a failure *)
(* of one connection: the server exits, and no outbound connection is ever *)
(* made on a socket to which the binding was not applied.                  *)
(* connect_to_dst sets EXIT and then connects the unbound socket all the   *)
(* same; the client is answered REP = 0x00.                                *)
(***************************************************************************)
C16_BindFailureIsFatal ==
    \A c \in Ids :
        conn[c].unbound
            => /\ EXIT
               /\ conn[c].socket_dst = Zero
               /\ \A i \in RequestReplies(c) : conn[c].sent[i][2] # 0

(***************************************************************************)
(* C17.  In the relay every non-empty chunk read from one socket is        *)
(* forwarded to the other in full and in order: whenever a turn of the     *)
(* loop is complete, the bytes the client socket took are the chunks read  *)
(* from the destination, joined, and the same the other way, also when a   *)
(* send takes a part of the chunk.                                         *)
(* proxy_loop calls send() once and drops its return value: what a send to *)
(* the destination does not take is lost.                                  *)
(***************************************************************************)
C17_RelayForwardsExactly ==
    \A c \in Ids :
        conn[c].pc \in {"proxy", "proxy_for"}
            => /\ conn[c].wrSrc = conn[c].rdDst
               /\ conn[c].wrDst = conn[c].rdSrc

(***************************************************************************)
(* C19.  The relay loop is entered only by a thread whose reply was sent   *)
(* without error with REP = 0x00 and whose socket_dst is a connected       *)
(* socket, not the placeholder 0; a thread whose reply carries a failure   *)
(* code, or whose reply could not be sent, never forwards a byte.          *)
(***************************************************************************)
\* proxy_loop has been called for connection c
RelayEntered(c) ==
    \/ conn[c].pc \in {"proxy", "proxy_for", "proxy_send"}
    \/ conn[c].stop # "none"
    \/ Forwarded(c) > 0
    \/ Len(conn[c].rdSrc) + Len(conn[c].rdDst) > 0

C19_RelayOnlyAfterSuccessReply ==
    \A c \in Ids :
        /\ RelayEntered(c)
               => /\ RequestReplies(c) = {2}
                  /\ conn[c].sent[2][2] = 0
                  /\ ~conn[c].sendRaised
                  /\ conn[c].socket_dst.kind = "sock"
        /\ ( \/ conn[c].sendRaised
             \/ \E i \in RequestReplies(c) : conn[c].sent[i][2] # 0 )
               => /\ ~RelayEntered(c)
                  /\ conn[c].wrSrc = <<>>
                  /\ conn[c].wrDst = <<>>

\* a relay entered after a success reply has forwarded a byte each way
C19_Witness ==
    \E c \in Ids :
        /\ conn[c].pc = "proxy"
        /\ conn[c].sent[2][2] = 0
        /\ conn[c].wrDst = <<7>>
        /\ conn[c].wrSrc = <<7>>

(***************************************************************************)
(* C18.  Shutdown is observed in the end: with fair scheduling, once EXIT  *)
(* is set the accept loop ends and closes the listening socket (also when  *)
(* it is held at the ceiling), and every relay loop that is running ends   *)
(* at its next test of the flag, after which both its sockets are closed.  *)
(* A relay inside send() to a client that does not read has no next test:  *)
(* the send is on a blocking socket.                                       *)
(***************************************************************************)
C18_ShutdownObserved ==
    /\ EXIT ~> (pcMain = "returned" /\ ~listening)
    /\ \A c \in Ids :
          (EXIT /\ conn[c].pc \in {"proxy", "proxy_for", "proxy_send"})
              ~> /\ conn[c].pc = "done"
                 /\ conn[c].wrapperCloses = 1
                 /\ conn[c].dstCloses = 1

(***************************************************************************)
(* C20.  The accept loop reads EXIT only at the top of each turn: at most  *)
(* one thread is started after EXIT is set, and none after the accept loop *)
(* has seen the flag and ended.                                            *)
(***************************************************************************)
\* the threads that were started with EXIT set
LateStarts == { c \in Ids : conn[c].lateStart }

C20_AtMostOneLateDispatch ==
    /\ [](Cardinality(LateStarts) <= 1)
    /\ [](pcMain = "returned" => EXIT)
    /\ [][pcMain = "returned"
             => /\ pcMain' = "returned"
                /\ \A c \in Ids :
                      conn[c].pc = "idle" => conn'[c].pc = "idle"]_vars

\* a thread was started after the flag was set, while an earlier thread was
\* running, and the accept loop has ended
C20_Witness ==
    \E c, d \in Ids :
        /\ conn[c].lateStart
        /\ ~conn[d].lateStart
        /\ conn[d].pc \in {"request", "proxy"}
        /\ pcMain = "returned"

=============================================================================
